---------------------------- MODULE Spec2Model ----------------------------
(***************************************************************************)
(* Solcial: the client of an on-chain forum (src/Solcial/src/Social.jsx).  *)
(*                                                                         *)
(* Two state machines are modelled.                                        *)
(*   SpecSend  the transaction wrapper sendAndConfirmWithRetry, one RPC    *)
(*             call per step, with withRetry around the RPC calls the code *)
(*             wraps.                                                      *)
(*   Spec      the Social component: wallet, form state, the handlers      *)
(*             createPost .. closeForum and initializeForum, and           *)
(*             executeTransactionSilently with its refresh loop.           *)
(*                                                                         *)
(* JavaScript strings are sequences of one-character strings, so that      *)
(* String.includes, toLowerCase, trim and length are computed and not      *)
(* assumed.                                                                *)
(***************************************************************************)
EXTENDS Integers, Sequences, FiniteSets, TLC

-----------------------------------------------------------------------------
(* JavaScript values *)

Null == <<"null">>

Undefined == <<"undefined">>

\* the signature string of the transaction signed in attempt a
Sig(a) == <<"sig", a>>

-----------------------------------------------------------------------------
(* String operations *)

\* String.prototype.includes: frag occurs in s as a contiguous substring
includes(s, frag) ==
    \E i \in 0..(Len(s) - Len(frag)) :
        \A j \in 1..Len(frag) : s[i + j] = frag[j]

UpperCase == <<"A","B","C","D","E","F","G","H","I","J","K","L","M","N","O","P","Q","R","S","T","U","V","W","X","Y","Z">>

LowerCase == <<"a","b","c","d","e","f","g","h","i","j","k","l","m","n","o","p","q","r","s","t","u","v","w","x","y","z">>

toLowerChar(c) ==
    IF \E k \in 1..Len(UpperCase) : UpperCase[k] = c
    THEN LowerCase[CHOOSE k \in 1..Len(UpperCase) : UpperCase[k] = c]
    ELSE c

\* String.prototype.toLowerCase
toLowerCase(s) == [i \in 1..Len(s) |-> toLowerChar(s[i])]

IsSpace(c) == c \in {" ", "\n", "\t"}

\* String.prototype.trim
trim(s) ==
    IF \A i \in 1..Len(s) : IsSpace(s[i])
    THEN <<>>
    ELSE LET first == CHOOSE i \in 1..Len(s) :
                          /\ ~IsSpace(s[i])
                          /\ \A j \in 1..(i - 1) : IsSpace(s[j])
             last == CHOOSE i \in 1..Len(s) :
                          /\ ~IsSpace(s[i])
                          /\ \A j \in (i + 1)..Len(s) : IsSpace(s[j])
         IN SubSeq(s, first, last)

\* the decimal text of a small number, as a template literal prints it
DigitStr(n) == <<<<"0","1","2","3","4","5","6","7","8","9">>[(n % 10) + 1]>>

-----------------------------------------------------------------------------
(* The message fragments the code matches, and the messages it builds *)

Frag429 == <<"4","2","9">>

FragTooManyRequests == <<"T","o","o"," ","M","a","n","y"," ","R","e","q","u","e","s","t","s">>

FragInvalidArguments == <<"I","n","v","a","l","i","d"," ","a","r","g","u","m","e","n","t","s">>

FragMapExpected == <<"I","n","v","a","l","i","d"," ","p","a","r","a","m","s",":"," ","i","n","v","a","l","i","d"," ","t","y","p","e",":"," ","m","a","p",","," ","e","x","p","e","c","t","e","d"," ","a"," ","s","t","r","i","n","g">>

FragWrongSize == <<"W","r","o","n","g","S","i","z","e">>

FragFailedToGet == <<"f","a","i","l","e","d"," ","t","o"," ","g","e","t"," ","t","r","a","n","s","a","c","t","i","o","n">>

FragInvalidParam == <<"I","n","v","a","l","i","d"," ","p","a","r","a","m">>

FragAlreadyProcessed == <<"T","h","i","s"," ","t","r","a","n","s","a","c","t","i","o","n"," ","h","a","s"," ","a","l","r","e","a","d","y"," ","b","e","e","n"," ","p","r","o","c","e","s","s","e","d">>

FragBlockhashNotFound == <<"B","l","o","c","k","h","a","s","h"," ","n","o","t"," ","f","o","u","n","d">>

FragExpired == <<"T","r","a","n","s","a","c","t","i","o","n","E","x","p","i","r","e","d","B","l","o","c","k","h","e","i","g","h","t","E","x","c","e","e","d","e","d","E","r","r","o","r">>

MsgRateLimited == <<"M","a","x"," ","r","e","t","r","i","e","s"," ","r","e","a","c","h","e","d"," ","d","u","e"," ","t","o"," ","r","a","t","e"," ","l","i","m","i","t","i","n","g">>

MsgSimulationFailed == <<"S","i","m","u","l","a","t","i","o","n"," ","f","a","i","l","e","d",":"," ">>

MsgTransactionFailed == <<"T","r","a","n","s","a","c","t","i","o","n"," ","f","a","i","l","e","d",":"," ">>

MsgInvalidArgumentsError == <<"I","n","v","a","l","i","d"," ","a","r","g","u","m","e","n","t","s"," ","e","r","r","o","r",":"," ">>

MsgMaxRetriesReached == <<"M","a","x"," ","r","e","t","r","i","e","s"," ","r","e","a","c","h","e","d",":"," ">>

MsgAlreadyProcessedFailed == <<"T","r","a","n","s","a","c","t","i","o","n"," ","a","l","r","e","a","d","y"," ","p","r","o","c","e","s","s","e","d"," ","b","u","t"," ","f","a","i","l","e","d"," ","o","r"," ","n","o","t"," ","f","o","u","n","d">>

MsgFailedAfter == <<"T","r","a","n","s","a","c","t","i","o","n"," ","f","a","i","l","e","d"," ","a","f","t","e","r"," ">>

MsgAttempts == <<" ","a","t","t","e","m","p","t","s",":"," ">>

MsgLogs == <<"."," ","L","o","g","s",":"," ">>

TextTooManyRequests == <<"4","2","9"," ","T","o","o"," ","M","a","n","y"," ","R","e","q","u","e","s","t","s">>

TextUserRejected == <<"U","s","e","r"," ","r","e","j","e","c","t","e","d"," ","t","h","e"," ","r","e","q","u","e","s","t",".">>

TextSendFailed == <<"f","a","i","l","e","d"," ","t","o"," ","s","e","n","d"," ","t","r","a","n","s","a","c","t","i","o","n",":"," ","T","r","a","n","s","a","c","t","i","o","n"," ","s","i","m","u","l","a","t","i","o","n"," ","f","a","i","l","e","d",":"," ","c","u","s","t","o","m"," ","p","r","o","g","r","a","m"," ","e","r","r","o","r",":"," ","0","x","1">>

TextAlreadyProcessed == <<"f","a","i","l","e","d"," ","t","o"," ","s","e","n","d"," ","t","r","a","n","s","a","c","t","i","o","n",":"," ","T","r","a","n","s","a","c","t","i","o","n"," ","s","i","m","u","l","a","t","i","o","n"," ","f","a","i","l","e","d",":"," ","T","h","i","s"," ","t","r","a","n","s","a","c","t","i","o","n"," ","h","a","s"," ","a","l","r","e","a","d","y"," ","b","e","e","n"," ","p","r","o","c","e","s","s","e","d">>

TextInstructionError == <<"{","\"","I","n","s","t","r","u","c","t","i","o","n","E","r","r","o","r","\"",":","[","1",",","{","\"","C","u","s","t","o","m","\"",":","1","}","]","}">>

TextLogs == <<"[","]">>

KwMemeLaunch == <<"m","e","m","e"," ","l","a","u","n","c","h">>

KwMemeCoin == <<"m","e","m","e"," ","c","o","i","n">>

KwSolanaGem == <<"s","o","l","a","n","a"," ","g","e","m">>

KwHiddenGem == <<"h","i","d","d","e","n"," ","g","e","m">>

KwPolitics == <<"p","o","l","i","t","i","c","s">>

KwElection == <<"e","l","e","c","t","i","o","n">>

KwDevHelp == <<"d","e","v"," ","h","e","l","p">>

KwCoding == <<"c","o","d","i","n","g">>

KwAnnouncement == <<"a","n","n","o","u","n","c","e","m","e","n","t">>

KwUpdate == <<"u","p","d","a","t","e">>

KwSolanaDapp == <<"s","o","l","a","n","a"," ","d","a","p","p">>

KwNewDapp == <<"n","e","w"," ","d","a","p","p">>

KwSolcial == <<"s","o","l","c","i","a","l">>

\* the text of a category name
CategoryText(category) ==
    CASE category = "General Chatting" -> <<"G","e","n","e","r","a","l"," ","C","h","a","t","t","i","n","g">>
      [] category = "Meme Launches" -> <<"M","e","m","e"," ","L","a","u","n","c","h","e","s">>
      [] category = "Solana Gems" -> <<"S","o","l","a","n","a"," ","G","e","m","s">>
      [] category = "Politics" -> <<"P","o","l","i","t","i","c","s">>
      [] category = "Dev Help" -> <<"D","e","v"," ","H","e","l","p">>
      [] category = "Announcements" -> <<"A","n","n","o","u","n","c","e","m","e","n","t","s">>
      [] category = "New Solana Dapps" -> <<"N","e","w"," ","S","o","l","a","n","a"," ","D","a","p","p","s">>
      [] category = "Solcial Discussion" -> <<"S","o","l","c","i","a","l"," ","D","i","s","c","u","s","s","i","o","n">>

TextGm == <<"g","m">>

TextBigUpdate == <<"B","i","g"," ","u","p","d","a","t","e",":"," ","f","e","e","s"," ","a","r","e"," ","l","o","w","e","r"," ","n","o","w">>

-----------------------------------------------------------------------------
(* Bounds and program constants *)

\* largest maxRetries argument tried for sendAndConfirmWithRetry
MaxRetriesArg == 4

\* maxRetries = 5 of withRetry
WithRetryMax == 5

\* baseDelay = 1000 of sendAndConfirmWithRetry
BaseDelay == 1000

-----------------------------------------------------------------------------
VARIABLES
    pc,              \* sendAndConfirmWithRetry: the await it is suspended at
    attempt,         \* its loop variable
    maxRetries,      \* its argument
    wAttempt,        \* the loop variable of the withRetry call in progress
    finalSignature,  \* its local finalSignature
    signatures,      \* transaction.signatures
    recentBlockhash, \* transaction.recentBlockhash: the attempt that fetched it
    err,             \* the error the outer catch block holds
    result,          \* how the call settled
    sendCalls,       \* history: calls of provider.sendAndConfirm in this call
    landed,          \* history: submissions of this call the cluster executed
    sentAt,          \* history: attempts that called provider.sendAndConfirm
    simErrAt,        \* history: attempts whose simulation reported value.err
    simulatedAt,     \* history: last attempt that called simulateTransaction
    ambiguousAt,     \* history: attempts whose send failed, outcome unknown
    metaErrAt,       \* history: attempts whose status lookup showed meta.err
    waited,          \* history: the delay awaited before the current attempt
    lookup           \* history: what the status lookup of lines 203-208 gave

sendVars ==
    <<pc, attempt, maxRetries, wAttempt, finalSignature, signatures,
      recentBlockhash, err, result, sendCalls, landed, sentAt, simErrAt,
      simulatedAt, ambiguousAt, metaErrAt, waited, lookup>>

VARIABLES
    publicKey,      \* useWallet().publicKey
    forumPda,       \* the derived forum address
    loading,
    error,
    posts,          \* the loaded posts
    replies,        \* the loaded replies
    chainForum,     \* the forum account on chain
    chainPosts,     \* the post accounts on chain
    chainReplies,   \* the reply accounts on chain
    postCount,      \* forum.postCount on chain
    replyCount,     \* forum.replyCount on chain
    step,           \* the await the handler in progress is suspended at
    op,             \* the handler in progress
    tx,             \* the transaction its transactionFn builds
    refreshAttempt, \* the loop variable of the refresh loop
    check,          \* history: the message of the validation check that failed
    fnOutcome,      \* history: how transactionFn settled
    sends,          \* history: calls of sendAndConfirmWithRetry by the handler
    refreshes,      \* history: refresh attempts made
    refreshed       \* history: a refresh attempt completed without error

appVars ==
    <<publicKey, forumPda, loading, error, posts, replies, chainForum,
      chainPosts, chainReplies, postCount, replyCount, step, op, tx,
      refreshAttempt, check, fnOutcome, sends, refreshes, refreshed>>

VARIABLES
    showBridge,         \* the bridge dialog is open
    evmAddress,         \* the connected EVM wallet, with its evmProvider
    estimationInfo,     \* the bridge estimation, when there is one
    bridgePostContent,  \* the text typed in the bridge dialog
    bridgePostCategory  \* the category selected in the bridge dialog

bridgeVars ==
    <<showBridge, evmAddress, estimationInfo, bridgePostContent,
      bridgePostCategory>>

VARIABLES
    starredPosts,  \* the ids of the starred posts, in the order starred
    localStorage   \* window.localStorage: the item stored for each wallet

starVars == <<starredPosts, localStorage>>

VARIABLE
    wr  \* a call of withRetry on its own: its position, its loop variable,
        \* what fn gave at each call, and how the call settled

\* the state the send wrapper and the handlers leave alone
formVars == <<bridgeVars, starVars, wr>>

vars == <<sendVars, appVars, bridgeVars, starVars, wr>>

-----------------------------------------------------------------------------
(* Errors and RPC results *)

\* new Error(message)
Error(message) == [name |-> "Error", message |-> message]

NoError == [name |-> "none", message |-> <<>>]

\* the errors an RPC call or the wallet is tried with
RpcErrors ==
    { Error(TextTooManyRequests),
      Error(FragInvalidArguments),
      Error(FragMapExpected),
      Error(FragWrongSize),
      Error(FragFailedToGet),
      Error(FragBlockhashNotFound),
      Error(TextUserRejected),
      [name |-> "SendTransactionError", message |-> TextAlreadyProcessed],
      [name |-> "SendTransactionError", message |-> TextSendFailed] }

Value(v) == [kind |-> "value", value |-> v, err |-> NoError]

Thrown(e) == [kind |-> "error", value |-> <<>>, err |-> e]

Failures == { Thrown(e) : e \in RpcErrors }

\* getLatestBlockhash
BlockhashResults == { Value(<<"blockhash">>) } \cup Failures

\* simulateTransaction: simulationResult.value.err
SimulationResults == { Value(Null), Value(TextInstructionError) } \cup Failures

\* provider.sendAndConfirm
SendResults == { Value(<<"signature">>) } \cup Failures

\* getTransaction: null, or a status with its meta.err
NotFound == [found |-> FALSE, metaErr |-> Null]

StatusResults ==
    { Value(NotFound),
      Value([found |-> TRUE, metaErr |-> Null]),
      Value([found |-> TRUE, metaErr |-> TextInstructionError]) } \cup Failures

\* err.getLogs
LogsResults == { Value(TextLogs) } \cup Failures

\* the three messages after which the code says the transaction may have
\* succeeded (lines 182-185)
IsRpcConfirmationError(message) ==
    \/ includes(message, FragMapExpected)
    \/ includes(message, FragWrongSize)
    \/ includes(message, FragFailedToGet)

\* a loop that waits and calls fn again after any error
withRetryAnyError(r, w) ==
    IF r.kind = "value"
    THEN [kind |-> "return", value |-> r.value, err |-> NoError]
    ELSE IF w = WithRetryMax
         THEN [kind |-> "throw", value |-> <<>>, err |-> Error(MsgRateLimited)]
         ELSE [kind |-> "retry", value |-> <<>>, err |-> NoError]

\* one round of withRetry's loop around an RPC call with result r
withRetry(r, w) ==
    IF r.kind = "value"
    THEN [kind |-> "return", value |-> r.value, err |-> NoError]
    ELSE IF \/ includes(r.err.message, Frag429)
            \/ includes(r.err.message, FragTooManyRequests)
         THEN IF w = WithRetryMax
              THEN [kind |-> "throw", value |-> <<>>, err |-> Error(MsgRateLimited)]
              ELSE [kind |-> "retry", value |-> <<>>, err |-> NoError]
         ELSE [kind |-> "throw", value |-> <<>>, err |-> r.err]

\* the argument of a withRetry call made on its own: what fn gives
FnResults ==
    { Value(<<"blockhash">>), Value(Null), Thrown(Error(Frag429)) } \cup Failures

InitWithRetry ==
    wr = [pc |-> "idle", attempt |-> 1, history |-> <<>>,
          result |-> [kind |-> "none", value |-> <<>>, err |-> NoError]]

\* withRetry(fn), line 66
WithRetryCall ==
    /\ wr.pc = "idle"
    /\ wr' = [pc |-> "call", attempt |-> 1, history |-> <<>>,
              result |-> [kind |-> "none", value |-> <<>>, err |-> NoError]]
    /\ UNCHANGED <<sendVars, appVars, bridgeVars, starVars>>

\* "await fn()" of line 69 and what follows it in that iteration
WithRetryFn ==
    /\ wr.pc = "call"
    /\ \E r \in FnResults :
         LET o == withRetry(r, wr.attempt) IN
           IF o.kind = "retry"
           THEN wr' = [wr EXCEPT !.attempt = @ + 1, !.history = Append(@, r)]
           ELSE wr' = [wr EXCEPT !.pc = "done", !.history = Append(@, r),
                                 !.result = o]
    /\ UNCHANGED <<sendVars, appVars, bridgeVars, starVars>>

\* the caller takes the result
WithRetrySettle ==
    /\ wr.pc = "done"
    /\ wr' = [wr EXCEPT !.pc = "idle"]
    /\ UNCHANGED <<sendVars, appVars, bridgeVars, starVars>>

NextWithRetry ==
    \/ WithRetryCall
    \/ WithRetryFn
    \/ WithRetrySettle

NoResult == [kind |-> "none", value |-> <<>>, message |-> <<>>]

Returned(v) == [kind |-> "return", value |-> v, message |-> <<>>]

Rejected(e) == [kind |-> "throw", value |-> <<>>, message |-> e.message]

\* baseDelay * 2 ** (attempt - 1), the random part left out
Delay(a) == BaseDelay * (2 ^ (a - 1))

-----------------------------------------------------------------------------
(* sendAndConfirmWithRetry, lines 84-235 *)

InitSend ==
    /\ pc = "idle"
    /\ attempt = 0
    /\ maxRetries = 0
    /\ wAttempt = 1
    /\ finalSignature = Null
    /\ signatures = <<>>
    /\ recentBlockhash = 0
    /\ err = NoError
    /\ result = NoResult
    /\ sendCalls = 0
    /\ landed = 0
    /\ sentAt = {}
    /\ simErrAt = {}
    /\ simulatedAt = 0
    /\ ambiguousAt = {}
    /\ metaErrAt = {}
    /\ waited = 0
    /\ lookup = "none"

\* a loop that makes one attempt more than maxRetries
LoopConditionOffByOne(a, m) == a <= m + 1

\* "attempt <= maxRetries", line 87
LoopCondition(a, m) == a <= m

\* a next iteration that keeps the blockhash it has
ContinueSameBlockhash(d) ==
    /\ attempt' = attempt + 1
    /\ wAttempt' = 1
    /\ waited' = d
    /\ err' = NoError
    /\ IF LoopCondition(attempt + 1, maxRetries)
       THEN pc' = "simulate" /\ result' = NoResult
       ELSE pc' = "done" /\ result' = Returned(Undefined)

\* the loop's next iteration, after a wait of d milliseconds
Continue(d) ==
    /\ attempt' = attempt + 1
    /\ wAttempt' = 1
    /\ waited' = d
    /\ err' = NoError
    /\ IF LoopCondition(attempt + 1, maxRetries)
       THEN pc' = "blockhash" /\ result' = NoResult
       ELSE pc' = "done" /\ result' = Returned(Undefined)

\* control reaches the outer catch block with e
Throw(e) ==
    /\ pc' = "catch"
    /\ err' = e
    /\ wAttempt' = 1
    /\ UNCHANGED <<attempt, result, waited>>

\* the call returns v
Return(v) ==
    /\ pc' = "done"
    /\ result' = Returned(v)
    /\ err' = NoError
    /\ wAttempt' = 1
    /\ UNCHANGED <<attempt, waited>>

\* the call rejects with e
Reject(e) ==
    /\ pc' = "done"
    /\ result' = Rejected(e)
    /\ err' = NoError
    /\ wAttempt' = 1
    /\ UNCHANGED <<attempt, waited>>

\* withRetry waits and calls fn again
Retry ==
    /\ wAttempt' = wAttempt + 1
    /\ UNCHANGED <<pc, attempt, err, result, waited>>

\* sendAndConfirmWithRetry(provider, transaction, m)
Call(m) ==
    /\ pc = "idle"
    /\ maxRetries' = m
    /\ attempt' = 1
    /\ wAttempt' = 1
    /\ finalSignature' = Null
    /\ signatures' = <<>>
    /\ recentBlockhash' = 0
    /\ err' = NoError
    /\ sendCalls' = 0
    /\ landed' = 0
    /\ sentAt' = {}
    /\ simErrAt' = {}
    /\ simulatedAt' = 0
    /\ ambiguousAt' = {}
    /\ metaErrAt' = {}
    /\ waited' = 0
    /\ lookup' = "none"
    /\ IF LoopCondition(1, m)
       THEN pc' = "blockhash" /\ result' = NoResult
       ELSE pc' = "done" /\ result' = Returned(Undefined)
    /\ UNCHANGED <<appVars, formVars>>

\* lines 89-96
GetLatestBlockhash ==
    /\ pc = "blockhash"
    /\ \E r \in BlockhashResults :
         LET o == withRetry(r, wAttempt) IN
           CASE o.kind = "retry" ->
                  /\ Retry
                  /\ UNCHANGED recentBlockhash
             [] o.kind = "throw" ->
                  /\ Throw(o.err)
                  /\ UNCHANGED recentBlockhash
             [] o.kind = "return" ->
                  /\ recentBlockhash' = attempt
                  /\ pc' = "simulate"
                  /\ wAttempt' = 1
                  /\ UNCHANGED <<attempt, err, result, waited>>
    /\ UNCHANGED <<maxRetries, finalSignature, signatures, sendCalls, landed,
                   sentAt, simErrAt, simulatedAt, ambiguousAt, metaErrAt>>
    /\ UNCHANGED <<appVars, formVars, lookup>>

\* the catch block of lines 115-122
SimulationCatch ==
    IF attempt = maxRetries
    THEN /\ pc' = "send"
         /\ wAttempt' = 1
         /\ UNCHANGED <<attempt, err, result, waited>>
    ELSE Continue(0)

\* lines 98-122
SimulateTransaction ==
    /\ pc = "simulate"
    /\ \E r \in SimulationResults :
         LET o == withRetry(r, wAttempt) IN
           CASE o.kind = "retry" ->
                  /\ Retry
                  /\ UNCHANGED simErrAt
             [] o.kind = "throw" ->
                  /\ SimulationCatch
                  /\ UNCHANGED simErrAt
             [] o.kind = "return" /\ o.value # Null ->
                  /\ simErrAt' = simErrAt \cup {attempt}
                  /\ IF attempt = maxRetries
                     THEN SimulationCatch
                     ELSE Continue(0)
             [] o.kind = "return" /\ o.value = Null ->
                  /\ pc' = "send"
                  /\ wAttempt' = 1
                  /\ UNCHANGED <<attempt, err, result, waited, simErrAt>>
    /\ simulatedAt' = attempt
    /\ UNCHANGED <<maxRetries, finalSignature, signatures, recentBlockhash,
                   sendCalls, landed, sentAt, ambiguousAt, metaErrAt>>
    /\ UNCHANGED <<appVars, formVars, lookup>>

\* lines 124-131
SendAndConfirm ==
    /\ pc = "send"
    /\ sendCalls' = sendCalls + 1
    /\ sentAt' = sentAt \cup {attempt}
    /\ \E r \in SendResults :
         IF r.kind = "value"
         THEN /\ finalSignature' = Sig(attempt)
              /\ signatures' = <<Sig(attempt)>>
              /\ landed' = landed + 1
              /\ pc' = "confirm"
              /\ wAttempt' = 1
              /\ UNCHANGED <<attempt, err, result, waited, ambiguousAt>>
         ELSE /\ Throw(r.err)
              /\ UNCHANGED finalSignature
              /\ \E signed \in BOOLEAN :
                   signatures' = IF signed THEN <<Sig(attempt)>> ELSE signatures
              /\ IF IsRpcConfirmationError(r.err.message)
                 THEN /\ ambiguousAt' = ambiguousAt \cup {attempt}
                      /\ \E n \in {0, 1} : landed' = landed + n
                 ELSE UNCHANGED <<ambiguousAt, landed>>
    /\ UNCHANGED <<maxRetries, recentBlockhash, simErrAt, simulatedAt, metaErrAt>>
    /\ UNCHANGED <<appVars, formVars, lookup>>

\* the catch block of lines 152-165
ConfirmCatch(confirmErr) ==
    IF \/ includes(confirmErr.message, FragWrongSize)
       \/ includes(confirmErr.message, FragInvalidParam)
       \/ includes(confirmErr.message, FragFailedToGet)
    THEN Return(finalSignature)
    ELSE IF finalSignature # Null
         THEN Return(finalSignature)
         ELSE Throw(confirmErr)

\* lines 133-167
GetTransaction ==
    /\ pc = "confirm"
    /\ \E r \in StatusResults :
         LET o == withRetry(r, wAttempt) IN
           CASE o.kind = "retry" ->
                  /\ Retry
                  /\ UNCHANGED metaErrAt
             [] o.kind = "throw" ->
                  /\ ConfirmCatch(o.err)
                  /\ UNCHANGED metaErrAt
             [] o.kind = "return" /\ ~o.value.found ->
                  /\ Return(finalSignature)
                  /\ UNCHANGED metaErrAt
             [] o.kind = "return" /\ o.value.found /\ o.value.metaErr # Null ->
                  /\ metaErrAt' = metaErrAt \cup {attempt}
                  /\ ConfirmCatch(Error(MsgTransactionFailed \o o.value.metaErr))
             [] o.kind = "return" /\ o.value.found /\ o.value.metaErr = Null ->
                  /\ Return(finalSignature)
                  /\ UNCHANGED metaErrAt
    /\ UNCHANGED <<maxRetries, finalSignature, signatures, recentBlockhash,
                   sendCalls, landed, sentAt, simErrAt, simulatedAt, ambiguousAt>>
    /\ UNCHANGED <<appVars, formVars, lookup>>

\* what follows "await err.getLogs?.(provider.connection) || []" in the
\* branches of lines 172-181 and 221-229
AfterLogs(logs) ==
    IF includes(err.message, FragInvalidArguments)
    THEN IF attempt = maxRetries
         THEN /\ Reject(Error(MsgInvalidArgumentsError \o err.message \o MsgLogs \o logs))
              /\ UNCHANGED signatures
         ELSE /\ signatures' = <<>>
              /\ Continue(0)
    ELSE /\ UNCHANGED signatures
         /\ IF attempt = maxRetries
            THEN Reject(Error(MsgFailedAfter \o DigitStr(maxRetries) \o MsgAttempts
                              \o err.message \o MsgLogs \o logs))
            ELSE Continue(Delay(attempt))

\* transaction.signatures[0] as the branch of lines 198-200 reads it; the
\* empty string when there is no signature
SignatureOf(sigs) == IF sigs = <<>> THEN <<>> ELSE sigs[1]

\* lines 169-233, up to the first await of the branch taken
OuterCatch ==
    /\ pc = "catch"
    /\ IF includes(err.message, FragInvalidArguments)
       THEN IF err.name = "SendTransactionError"
            THEN /\ pc' = "getLogs"
                 /\ UNCHANGED <<attempt, wAttempt, err, result, waited, signatures>>
            ELSE AfterLogs(TextLogs)
       ELSE IF IsRpcConfirmationError(err.message)
       THEN IF finalSignature # Null
            THEN /\ Return(finalSignature)
                 /\ UNCHANGED signatures
            ELSE IF attempt < maxRetries
                 THEN /\ signatures' = <<>>
                      /\ Continue(0)
                 ELSE /\ Reject(Error(MsgMaxRetriesReached \o err.message))
                      /\ UNCHANGED signatures
       ELSE IF includes(err.message, FragAlreadyProcessed)
       THEN /\ pc' = "status"
            /\ UNCHANGED <<attempt, wAttempt, err, result, waited, signatures>>
       ELSE IF \/ includes(err.message, FragBlockhashNotFound)
               \/ includes(err.message, FragExpired)
       THEN /\ Continue(0)
            /\ UNCHANGED signatures
       ELSE IF err.name = "SendTransactionError"
       THEN /\ pc' = "getLogs"
            /\ UNCHANGED <<attempt, wAttempt, err, result, waited, signatures>>
       ELSE /\ Reject(err)
            /\ UNCHANGED signatures
    /\ UNCHANGED <<maxRetries, finalSignature, recentBlockhash, sendCalls,
                   landed, sentAt, simErrAt, simulatedAt, ambiguousAt, metaErrAt>>
    /\ UNCHANGED <<appVars, formVars, lookup>>

\* err.getLogs(provider.connection), lines 174 and 222; an error it throws
\* leaves the catch block and rejects the call
GetLogs ==
    /\ pc = "getLogs"
    /\ \E r \in LogsResults :
         IF r.kind = "value"
         THEN AfterLogs(r.value)
         ELSE /\ Reject(r.err)
              /\ UNCHANGED signatures
    /\ UNCHANGED <<maxRetries, finalSignature, recentBlockhash, sendCalls,
                   landed, sentAt, simErrAt, simulatedAt, ambiguousAt, metaErrAt>>
    /\ UNCHANGED <<appVars, formVars, lookup>>

\* a status lookup that is content with any status it finds
GetTransactionStatusAnyStatus ==
    /\ pc = "status"
    /\ \E r \in StatusResults :
         /\ (r.kind = "value" /\ r.value.found) => SignatureOf(signatures) # <<>>
         /\ LET o == withRetry(r, wAttempt) IN
              CASE o.kind = "retry" ->
                     /\ Retry
                     /\ UNCHANGED lookup
                [] o.kind = "throw" ->
                     /\ Reject(Error(MsgAlreadyProcessedFailed))
                     /\ lookup' = "error"
                [] o.kind = "return" ->
                     /\ lookup' = IF ~o.value.found THEN "notFound"
                                  ELSE IF o.value.metaErr = Null THEN "found"
                                  ELSE "failed"
                     /\ IF o.value.found
                        THEN Return(SignatureOf(signatures))
                        ELSE Reject(Error(MsgAlreadyProcessedFailed))
    /\ UNCHANGED <<maxRetries, finalSignature, signatures, recentBlockhash,
                   sendCalls, landed, sentAt, simErrAt, simulatedAt,
                   ambiguousAt, metaErrAt>>
    /\ UNCHANGED <<appVars, formVars>>

\* lines 196-217: the status lookup after "already been processed"; a
\* status is found only for a signature the wallet produced
GetTransactionStatus ==
    /\ pc = "status"
    /\ \E r \in StatusResults :
         /\ (r.kind = "value" /\ r.value.found) => SignatureOf(signatures) # <<>>
         /\ LET o == withRetry(r, wAttempt) IN
              CASE o.kind = "retry" ->
                     /\ Retry
                     /\ UNCHANGED lookup
                [] o.kind = "throw" ->
                     /\ Reject(Error(MsgAlreadyProcessedFailed))
                     /\ lookup' = "error"
                [] o.kind = "return" ->
                     /\ lookup' = IF ~o.value.found THEN "notFound"
                                  ELSE IF o.value.metaErr = Null THEN "found"
                                  ELSE "failed"
                     /\ IF o.value.found /\ o.value.metaErr = Null
                        THEN Return(SignatureOf(signatures))
                        ELSE Reject(Error(MsgAlreadyProcessedFailed))
    /\ UNCHANGED <<maxRetries, finalSignature, signatures, recentBlockhash,
                   sendCalls, landed, sentAt, simErrAt, simulatedAt,
                   ambiguousAt, metaErrAt>>
    /\ UNCHANGED <<appVars, formVars>>

\* the caller takes the result
Settle ==
    /\ pc = "done"
    /\ pc' = "idle"
    /\ UNCHANGED <<attempt, maxRetries, wAttempt, finalSignature, signatures,
                   recentBlockhash, err, result, sendCalls, landed, sentAt,
                   simErrAt, simulatedAt, ambiguousAt, metaErrAt, waited, lookup>>
    /\ UNCHANGED <<appVars, formVars>>

NextSend ==
    \/ \E m \in 0..MaxRetriesArg : Call(m)
    \/ GetLatestBlockhash
    \/ SimulateTransaction
    \/ SendAndConfirm
    \/ GetTransaction
    \/ OuterCatch
    \/ GetLogs
    \/ GetTransactionStatus
    \/ Settle

-----------------------------------------------------------------------------
(* The Social component, lines 1724-4130 *)

\* null in a variable that holds a key, an address or a message
NullRef == "null"

ADMIN_PUBLIC_KEY == "HrsKTCmdRrvfsknwVwnVguWFXQpLTdgCwQ8nwfFXvvLz"

MODERATOR_PUBLIC_KEYS ==
    { "7XeCnBHGWYxpVfd9zCoU3z8FtiSwoGZYk41jcE2sgBxW",
      "5n7BhkbShhh4LCKngM6z7kzKmFaM9jTmJ8XYpzSE7BXU",
      "HaNAWXNe3ZUwDKsTA8feKL43r4ViqaNAzzZGWixUvncp" }

\* a wallet that holds no role
OtherWallet == "4Nd1mBQtrMJVYVfKf2PJy9NZUZdTAsp7D4xWLs4gDB4T"

\* the wallets a user connects
Wallets ==
    { ADMIN_PUBLIC_KEY, "7XeCnBHGWYxpVfd9zCoU3z8FtiSwoGZYk41jcE2sgBxW", OtherWallet }

\* posts and replies the forum account is let grow to
MaxPosts == 1

MaxReplies == 1

\* the content limits of lines 2286 and 2379, and of line 2632
MaxContentLength == 280

MaxReasonLength == 100

\* the refresh loop of line 2089
RefreshAttempts == 3

\* n characters of text
Fill(n) == [i \in 1..n |-> "x"]

\* what a user types as post content, reply content and report reason
PostContents == { <<>>, TextGm, TextBigUpdate, Fill(MaxContentLength) }

ReplyContents == { <<>>, TextGm, <<" ">>, Fill(MaxContentLength + 1) }

ReportReasons == { <<>>, TextGm, <<" ">>, Fill(MaxReasonLength + 1) }

\* the categories a user selects in the form
PostCategories == { "General Chatting", "Announcements" }

OK == "ok"

NoTx == [kind |-> "none", signer |-> NullRef, content |-> <<>>, target |-> 0]

\* async () => {}
Noop == [kind |-> "noop", signer |-> NullRef, content |-> <<>>, target |-> 0]

Tx(kind, signer, content, target) ==
    [kind |-> kind, signer |-> signer, content |-> content, target |-> target]

\* lines 2802-2803: the wallet is a moderator or the admin
IsModeratorOrAdmin(key) ==
    ~(key \notin MODERATOR_PUBLIC_KEYS /\ key # ADMIN_PUBLIC_KEY)

\* line 2946
IsAdmin(key) == key = ADMIN_PUBLIC_KEY

\* `[${category}] ${content}`
CategorizedContent(category, content) ==
    <<"[">> \o CategoryText(category) \o <<"]", " ">> \o content

\* lines 2054-2073
categorizePost(content) ==
    LET lowerContent == toLowerCase(content) IN
    IF includes(lowerContent, KwMemeLaunch) \/ includes(lowerContent, KwMemeCoin)
    THEN "Meme Launches"
    ELSE IF includes(lowerContent, KwSolanaGem) \/ includes(lowerContent, KwHiddenGem)
    THEN "Solana Gems"
    ELSE IF includes(lowerContent, KwPolitics) \/ includes(lowerContent, KwElection)
    THEN "Politics"
    ELSE IF includes(lowerContent, KwDevHelp) \/ includes(lowerContent, KwCoding)
    THEN "Dev Help"
    ELSE IF includes(lowerContent, KwAnnouncement) \/ includes(lowerContent, KwUpdate)
    THEN "Announcements"
    ELSE IF includes(lowerContent, KwSolanaDapp) \/ includes(lowerContent, KwNewDapp)
    THEN "New Solana Dapps"
    ELSE IF includes(lowerContent, KwSolcial)
    THEN "Solcial Discussion"
    ELSE "General Chatting"

\* lines 2040-2052, the sections that read posts alone; the order of the
\* list is left out
filteredPosts(activeSection) ==
    IF activeSection = "My Posts"
    THEN { post \in posts : post.author = publicKey }
    ELSE IF activeSection # "All"
    THEN { post \in posts : post.category = activeSection }
    ELSE posts

\* the forum account can be fetched and decoded
Readable(f) == f \in {"valid", "foreign"}

\* program.account.post.all() mapped as in lines 2103-2113
LoadPosts ==
    { [id |-> p.id, author |-> p.author, content |-> p.content,
       category |-> categorizePost(p.content)] : p \in chainPosts }

\* program.account.reply.all() mapped as in lines 2116-2126
LoadReplies == chainReplies

-----------------------------------------------------------------------------
(* Validation checks: the message of the first check that fails, or OK *)

\* lines 2273-2295
createPostCheck(content, category) ==
    IF publicKey = NullRef \/ content = <<>> \/ forumPda = NullRef
    THEN "Please connect wallet, enter post content, and wait for Forum PDA to be derived."
    ELSE IF category = "Announcements" /\ ~IsModeratorOrAdmin(publicKey)
    THEN "Only admins and moderators can post in Announcements."
    ELSE IF Len(CategorizedContent(category, content)) > MaxContentLength
    THEN "Post content exceeds 280 characters. Please shorten it."
    ELSE IF trim(CategorizedContent(category, content)) = <<>>
    THEN "Post content cannot be empty."
    ELSE OK

\* lines 2368-2388
createReplyCheck(postId, content) ==
    IF publicKey = NullRef \/ content = <<>> \/ forumPda = NullRef
    THEN "Please connect wallet, enter reply content, and wait for Forum PDA to be derived."
    ELSE IF ~\E p \in posts : p.id = postId
    THEN "Post not found. Please ensure the post exists."
    ELSE IF Len(content) > MaxContentLength
    THEN "Reply content exceeds 280 characters. Please shorten it."
    ELSE IF trim(content) = <<>>
    THEN "Reply content cannot be empty."
    ELSE OK

\* lines 2460-2470
ratePostCheck(postId) ==
    IF publicKey = NullRef \/ forumPda = NullRef
    THEN "Please connect wallet and wait for Forum PDA to be derived."
    ELSE IF ~\E p \in posts : p.id = postId
    THEN "Post not found. Please ensure the post exists."
    ELSE OK

\* lines 2537-2547
rateReplyCheck(replyId) ==
    IF publicKey = NullRef \/ forumPda = NullRef
    THEN "Please connect wallet and wait for Forum PDA to be derived."
    ELSE IF ~\E r \in replies : r.id = replyId
    THEN "Reply not found. Please ensure the reply exists."
    ELSE OK

\* lines 2621-2641
reportPostCheck(postId, reportReason) ==
    IF publicKey = NullRef \/ forumPda = NullRef \/ reportReason = <<>>
    THEN "Please connect wallet, wait for Forum PDA to be derived, and provide a report reason."
    ELSE IF ~\E p \in posts : p.id = postId
    THEN "Post not found. Please ensure the post exists."
    ELSE IF Len(reportReason) > MaxReasonLength
    THEN "Report reason exceeds 100 characters. Please shorten it."
    ELSE IF trim(reportReason) = <<>>
    THEN "Report reason cannot be empty."
    ELSE OK

\* lines 2709-2729
reportReplyCheck(replyId, reportReason) ==
    IF publicKey = NullRef \/ forumPda = NullRef \/ reportReason = <<>>
    THEN "Please connect wallet, wait for Forum PDA to be derived, and provide a report reason."
    ELSE IF ~\E r \in replies : r.id = replyId
    THEN "Reply not found. Please ensure the reply exists."
    ELSE IF Len(reportReason) > MaxReasonLength
    THEN "Report reason exceeds 100 characters. Please shorten it."
    ELSE IF trim(reportReason) = <<>>
    THEN "Report reason cannot be empty."
    ELSE OK

\* lines 2797-2812
resolveReportCheck(actionTaken) ==
    IF publicKey = NullRef \/ forumPda = NullRef
    THEN "Please connect wallet and wait for Forum PDA to be derived."
    ELSE IF ~IsModeratorOrAdmin(publicKey)
    THEN "Only admins and moderators can resolve reports."
    ELSE IF actionTaken = <<>> \/ Len(actionTaken) > MaxReasonLength
    THEN "Action taken must be provided and not exceed 100 characters."
    ELSE OK

\* lines 2837-2847, 2872-2882 and 2907-2917, which differ in the last word
moderationCheck(what) ==
    IF publicKey = NullRef \/ forumPda = NullRef
    THEN "Please connect wallet and wait for Forum PDA to be derived."
    ELSE IF ~IsModeratorOrAdmin(publicKey)
    THEN IF what = "posts" THEN "Only admins and moderators can delete posts."
         ELSE IF what = "replies" THEN "Only admins and moderators can delete replies."
         ELSE "Only admins and moderators can close reports."
    ELSE OK

\* the check of the other moderation handlers, copied to closeForum
closeForumCheckAnyModerator ==
    IF publicKey = NullRef \/ forumPda = NullRef
    THEN "Please connect wallet and wait for Forum PDA to be derived."
    ELSE IF ~IsModeratorOrAdmin(publicKey)
    THEN "Only admin (HrsKTCmd...) can close the forum."
    ELSE OK

\* lines 2941-2950
closeForumCheck ==
    IF publicKey = NullRef \/ forumPda = NullRef
    THEN "Please connect wallet and wait for Forum PDA to be derived."
    ELSE IF ~IsAdmin(publicKey)
    THEN "Only admin (HrsKTCmd...) can close the forum."
    ELSE OK

\* lines 2175-2188
initializeForumCheck ==
    IF publicKey = NullRef
    THEN "Please connect your wallet."
    ELSE IF forumPda = NullRef
    THEN "Forum PDA not yet derived. Please wait a moment and try again."
    ELSE IF ~(publicKey \in (MODERATOR_PUBLIC_KEYS \cup {ADMIN_PUBLIC_KEY}))
    THEN "Only admins (7XeCnBHG, 5n7BhkbS, HaNAWXNe, HrsKTCmd...) can initialize the forum."
    ELSE OK

-----------------------------------------------------------------------------
(* executeTransactionSilently, lines 2075-2172 *)

InitApp ==
    /\ publicKey = NullRef
    /\ forumPda = NullRef
    /\ loading = FALSE
    /\ error = NullRef
    /\ posts = {}
    /\ replies = {}
    /\ chainForum \in {"none", "valid", "foreign"}
    /\ chainPosts = {}
    /\ chainReplies = {}
    /\ postCount = 0
    /\ replyCount = 0
    /\ step = "idle"
    /\ op = "none"
    /\ tx = NoTx
    /\ refreshAttempt = 0
    /\ check = OK
    /\ fnOutcome = "none"
    /\ sends = 0
    /\ refreshes = 0
    /\ refreshed = FALSE

ChainUnchanged == UNCHANGED <<chainForum, chainPosts, chainReplies, postCount, replyCount>>

LoadedUnchanged == UNCHANGED <<posts, replies>>

\* lines 2076-2081: setLoading(true), setError(null), then transactionFn
\* is called; a message set just before the call is replaced in the same
\* render batch
executeTransactionSilently(handler, transactionFn, failedCheck) ==
    /\ step = "idle"
    /\ op' = handler
    /\ tx' = transactionFn
    /\ check' = failedCheck
    /\ loading' = TRUE
    /\ error' = NullRef
    /\ step' = "transactionFn"
    /\ fnOutcome' = "none"
    /\ sends' = 0
    /\ refreshes' = 0
    /\ refreshed' = FALSE
    /\ refreshAttempt' = 0
    /\ UNCHANGED <<publicKey, forumPda>>
    /\ LoadedUnchanged
    /\ ChainUnchanged
    /\ UNCHANGED <<sendVars, formVars>>

\* a handler whose failed check does not return
ValidatedNoReturn(handler, message, transaction) ==
    executeTransactionSilently(handler, transaction, message)

\* "setError(message); await executeTransactionSilently(async () => {}, ..);
\* return" when a check fails, the guarded transaction function otherwise
Validated(handler, message, transaction) ==
    IF message # OK
    THEN executeTransactionSilently(handler, Noop, message)
    ELSE executeTransactionSilently(handler, transaction, OK)

\* the handlers whose transaction function starts by fetching the forum
FetchesForum(kind) ==
    kind \in { "createPost", "createReply", "reportPost", "reportReply" }

\* enter the refresh loop of line 2089
ToRefresh ==
    /\ step' = "refresh"
    /\ refreshAttempt' = 1

\* a catch block that rethrows: the handler ends where transactionFn threw
TransactionFnRethrown(outcome) ==
    /\ fnOutcome' = outcome
    /\ IF outcome = "threw"
       THEN step' = "completed" /\ UNCHANGED refreshAttempt
       ELSE ToRefresh

\* lines 2080-2087: transactionFn has settled; what it throws is logged and
\* ignored
TransactionFnSettled(outcome) ==
    /\ fnOutcome' = outcome
    /\ ToRefresh

\* transactionFn up to its call of sendAndConfirmWithRetry: the fetches,
\* the balance checks and the instruction either succeed or throw
TransactionFn ==
    /\ step = "transactionFn"
    /\ IF tx.kind = "noop"
       THEN /\ TransactionFnSettled("ok")
            /\ UNCHANGED <<tx, sends>>
       ELSE \E built \in BOOLEAN :
              /\ (built /\ FetchesForum(tx.kind)) => Readable(chainForum)
              /\ IF built
                 THEN /\ step' = "send"
                      /\ sends' = sends + 1
                      /\ tx' = IF tx.kind = "createPost"
                               THEN [tx EXCEPT !.target = postCount + 1]
                               ELSE tx
                      /\ UNCHANGED <<fnOutcome, refreshAttempt>>
                 ELSE /\ TransactionFnSettled("threw")
                      /\ UNCHANGED <<tx, sends>>
    /\ UNCHANGED <<publicKey, forumPda, loading, error, op, check, refreshes, refreshed>>
    /\ LoadedUnchanged
    /\ ChainUnchanged
    /\ UNCHANGED <<sendVars, formVars>>

\* the effect on chain of an executed transaction t
ApplyPosts(t) ==
    IF /\ t.kind = "createPost"
       /\ Readable(chainForum)
       /\ t.target = postCount + 1
    THEN chainPosts \cup {[id |-> t.target, author |-> t.signer, content |-> t.content]}
    ELSE IF t.kind = "deletePost"
    THEN { p \in chainPosts : p.id # t.target }
    ELSE chainPosts

ApplyPostCount(t) ==
    IF /\ t.kind = "createPost"
       /\ Readable(chainForum)
       /\ t.target = postCount + 1
    THEN postCount + 1
    ELSE postCount

ApplyReplies(t) ==
    IF /\ t.kind = "createReply"
       /\ Readable(chainForum)
       /\ \E p \in chainPosts : p.id = t.target
    THEN chainReplies \cup {[id |-> replyCount + 1, postId |-> t.target, author |-> t.signer]}
    ELSE IF t.kind = "deleteReply"
    THEN { r \in chainReplies : r.id # t.target }
    ELSE chainReplies

ApplyReplyCount(t) ==
    IF /\ t.kind = "createReply"
       /\ Readable(chainForum)
       /\ \E p \in chainPosts : p.id = t.target
    THEN replyCount + 1
    ELSE replyCount

ApplyForum(t) ==
    IF t.kind = "initializeForum" /\ chainForum = "none"
    THEN "valid"
    ELSE IF t.kind = "closeForum" /\ chainForum = "valid"
    THEN "none"
    ELSE chainForum

\* the cluster executes t, or does not
Execute(t, executed) ==
    IF executed
    THEN /\ chainPosts' = ApplyPosts(t)
         /\ postCount' = ApplyPostCount(t)
         /\ chainReplies' = ApplyReplies(t)
         /\ replyCount' = ApplyReplyCount(t)
         /\ chainForum' = ApplyForum(t)
    ELSE ChainUnchanged

\* how a call of sendAndConfirmWithRetry with the default maxRetries
\* settles (lines 84-235, see SpecSend): with a signature, with undefined,
\* or by throwing
SendOutcomes == { "signature", "undefined", "throw" }

\* "await sendAndConfirmWithRetry(provider, transaction)" in a transaction
\* function and the statements after it (for closeForum lines 2969-2973)
SendAndConfirmWithRetry ==
    /\ step = "send"
    /\ \E outcome \in SendOutcomes, executed \in BOOLEAN :
         /\ Execute(tx, executed)
         /\ TransactionFnSettled(IF outcome = "throw" THEN "threw" ELSE "ok")
         /\ IF outcome # "throw" /\ tx.kind = "closeForum"
            THEN posts' = {} /\ replies' = {}
            ELSE LoadedUnchanged
    /\ tx' = NoTx
    /\ UNCHANGED <<publicKey, forumPda, loading, error, op, check, sends,
                   refreshes, refreshed>>
    /\ UNCHANGED <<sendVars, formVars>>

\* a loop without the break of line 2161
RefreshLoopEndsNoBreak(fetched, a) == a = RefreshAttempts

\* the loop ends at the break of line 2161 or when "attempt <= 3" fails
RefreshLoopEnds(fetched, a) == fetched = 5 \/ a = RefreshAttempts

\* one attempt of the refresh loop, lines 2089-2169: fetched of its five
\* fetches succeed; the loop ends at a complete refresh or after the third
\* attempt, and line 2171 follows
RefreshAttempt ==
    /\ step = "refresh"
    /\ \E fetched \in 0..5 :
         /\ (forumPda # NullRef /\ ~Readable(chainForum)) => fetched = 0
         /\ posts' = IF fetched >= 2 THEN LoadPosts ELSE posts
         /\ replies' = IF fetched >= 3 THEN LoadReplies ELSE replies
         /\ refreshed' = (fetched = 5)
         /\ IF RefreshLoopEnds(fetched, refreshAttempt)
            THEN /\ loading' = FALSE
                 /\ step' = "completed"
                 /\ UNCHANGED refreshAttempt
            ELSE /\ refreshAttempt' = refreshAttempt + 1
                 /\ UNCHANGED <<loading, step>>
    /\ refreshes' = refreshes + 1
    /\ UNCHANGED <<publicKey, forumPda, error, op, tx, check, fnOutcome, sends>>
    /\ ChainUnchanged
    /\ UNCHANGED <<sendVars, formVars>>

\* the handler's promise has settled; the next handler may start
Completed ==
    /\ step = "completed"
    /\ step' = "idle"
    /\ op' = "none"
    /\ tx' = NoTx
    /\ check' = OK
    /\ fnOutcome' = "none"
    /\ sends' = 0
    /\ refreshes' = 0
    /\ refreshed' = FALSE
    /\ refreshAttempt' = 0
    /\ UNCHANGED <<publicKey, forumPda, loading, error>>
    /\ LoadedUnchanged
    /\ ChainUnchanged
    /\ UNCHANGED <<sendVars, formVars>>

-----------------------------------------------------------------------------
(* The handlers *)

\* lines 2272-2365
createPost ==
    \E newPostContent \in PostContents, newPostCategory \in PostCategories :
      /\ postCount < MaxPosts
      /\ Validated("createPost",
                   createPostCheck(newPostContent, newPostCategory),
                   Tx("createPost", publicKey,
                      CategorizedContent(newPostCategory, newPostContent), 0))

\* lines 2367-2457
createReply ==
    \E postId \in 1..MaxPosts, newReplyContent \in ReplyContents :
      /\ replyCount < MaxReplies
      /\ Validated("createReply",
                   createReplyCheck(postId, newReplyContent),
                   Tx("createReply", publicKey, <<>>, postId))

\* lines 2459-2534
ratePost ==
    /\ step = "idle"
    /\ \E postId \in 1..MaxPosts :
         Validated("ratePost", ratePostCheck(postId),
                   Tx("ratePost", publicKey, <<>>, postId))

\* lines 2536-2618
rateReply ==
    /\ step = "idle"
    /\ \E replyId \in 1..MaxReplies :
         Validated("rateReply", rateReplyCheck(replyId),
                   Tx("rateReply", publicKey, <<>>, replyId))

\* lines 2620-2706
reportPost ==
    /\ step = "idle"
    /\ \E postId \in 1..MaxPosts, reportReason \in ReportReasons :
         Validated("reportPost", reportPostCheck(postId, reportReason),
                   Tx("reportPost", publicKey, <<>>, postId))

\* lines 2708-2794
reportReply ==
    /\ step = "idle"
    /\ \E replyId \in 1..MaxReplies, reportReason \in ReportReasons :
         Validated("reportReply", reportReplyCheck(replyId, reportReason),
                   Tx("reportReply", publicKey, <<>>, replyId))

\* lines 2796-2834
resolveReport ==
    /\ step = "idle"
    /\ \E reportId \in {1}, actionTaken \in ReportReasons, isPostReport \in BOOLEAN :
         Validated("resolveReport", resolveReportCheck(actionTaken),
                   Tx(IF isPostReport THEN "resolveReport" ELSE "resolveReplyReport",
                      publicKey, <<>>, reportId))

\* lines 2836-2869
deletePost ==
    /\ step = "idle"
    /\ \E postId \in 1..MaxPosts :
         Validated("deletePost", moderationCheck("posts"),
                   Tx("deletePost", publicKey, <<>>, postId))

\* lines 2871-2904
deleteReply ==
    /\ step = "idle"
    /\ \E replyId \in 1..MaxReplies :
         Validated("deleteReply", moderationCheck("replies"),
                   Tx("deleteReply", publicKey, <<>>, replyId))

\* lines 2906-2938
closeReport ==
    /\ step = "idle"
    /\ \E reportId \in {1}, isPostReport \in BOOLEAN :
         Validated("closeReport", moderationCheck("reports"),
                   Tx(IF isPostReport THEN "closePostReport" ELSE "closeReplyReport",
                      publicKey, <<>>, reportId))

\* lines 2940-2975
closeForum ==
    /\ step = "idle"
    /\ Validated("closeForum", closeForumCheck, Tx("closeForum", publicKey, <<>>, 0))

-----------------------------------------------------------------------------
(* The bridge dialog and handleBridgeAndPost, lines 1750-1759, 3153-3296 *)

\* the useState initial values of lines 1750-1759
InitBridge ==
    /\ showBridge = FALSE
    /\ evmAddress = NullRef
    /\ estimationInfo = NullRef
    /\ bridgePostContent = <<>>
    /\ bridgePostCategory = "General Chatting"

\* what a user types in the bridge dialog, which sets no maxLength
BridgeContents == { <<>>, <<" ">>, TextGm, Fill(MaxContentLength) }

\* lines 3164-3179: the values the handler needs
BridgeMissing ==
    \/ evmAddress = NullRef
    \/ publicKey = NullRef
    \/ estimationInfo = NullRef
    \/ trim(bridgePostContent) = <<>>

\* the catch and finally blocks of lines 3290-3295
BridgeFailed ==
    /\ error' = "Failed: "
    /\ loading' = FALSE
    /\ step' = "completed"

\* lines 3153-3182
handleBridgeAndPost ==
    /\ step = "idle"
    /\ postCount < MaxPosts
    /\ op' = "handleBridgeAndPost"
    /\ IF BridgeMissing
       THEN /\ error' = "Missing: "
            /\ step' = "completed"
            /\ UNCHANGED loading
       ELSE /\ loading' = TRUE
            /\ error' = NullRef
            /\ step' = "bridgeCreateTx"
    /\ UNCHANGED <<publicKey, forumPda, tx, refreshAttempt, check, fnOutcome,
                   sends, refreshes, refreshed>>
    /\ LoadedUnchanged
    /\ ChainUnchanged
    /\ UNCHANGED <<sendVars, formVars>>

\* one awaited stage of the bridge transfer: it succeeds or throws
BridgeStage(from, to) ==
    /\ step = from
    /\ \E thrown \in BOOLEAN :
         IF thrown
         THEN BridgeFailed
         ELSE /\ step' = to
              /\ UNCHANGED <<error, loading>>
    /\ UNCHANGED <<publicKey, forumPda, op, tx, refreshAttempt, check,
                   fnOutcome, sends, refreshes, refreshed>>
    /\ LoadedUnchanged
    /\ ChainUnchanged
    /\ UNCHANGED <<sendVars, formVars>>

\* lines 3198-3226: the bridge transaction is requested
BridgeCreateTx ==
    /\ step = "bridgeCreateTx"
    /\ BridgeStage("bridgeCreateTx", "bridgeEvmSend")

\* lines 3228-3245: the EVM wallet signs and sends it, and it is confirmed
BridgeEvmSend ==
    /\ step = "bridgeEvmSend"
    /\ BridgeStage("bridgeEvmSend", "bridgePoll")

\* lines 3247-3256: the order id and its fulfilment are polled for
BridgePoll ==
    /\ step = "bridgePoll"
    /\ BridgeStage("bridgePoll", "bridgeBalance")

\* lines 3258-3261
BridgeVerifyBalance ==
    /\ step = "bridgeBalance"
    /\ BridgeStage("bridgeBalance", "createAndSendPost")

\* lines 3268-3274 and 3388-3421: the createPost instruction is built from
\* the category and the content as typed
createAndSendPost ==
    /\ step = "createAndSendPost"
    /\ \E built \in BOOLEAN :
         /\ built => (forumPda # NullRef /\ Readable(chainForum))
         /\ IF built
            THEN /\ tx' = Tx("createPost", publicKey,
                            CategorizedContent(bridgePostCategory, bridgePostContent),
                            postCount + 1)
                 /\ sends' = sends + 1
                 /\ step' = "bridgeSend"
                 /\ UNCHANGED <<error, loading>>
            ELSE /\ BridgeFailed
                 /\ UNCHANGED <<tx, sends>>
    /\ UNCHANGED <<publicKey, forumPda, op, refreshAttempt, check, fnOutcome,
                   refreshes, refreshed>>
    /\ LoadedUnchanged
    /\ ChainUnchanged
    /\ UNCHANGED <<sendVars, formVars>>

\* line 3422
BridgeSend ==
    /\ step = "bridgeSend"
    /\ \E outcome \in SendOutcomes, executed \in BOOLEAN :
         /\ Execute(tx, executed)
         /\ IF outcome = "throw"
            THEN /\ BridgeFailed
                 /\ UNCHANGED refreshAttempt
            ELSE /\ step' = "bridgeRefresh"
                 /\ refreshAttempt' = 1
                 /\ UNCHANGED <<error, loading>>
    /\ tx' = NoTx
    /\ UNCHANGED <<publicKey, forumPda, op, check, fnOutcome, sends, refreshes,
                   refreshed>>
    /\ LoadedUnchanged
    /\ UNCHANGED <<sendVars, formVars>>

\* one attempt of refreshForumData, lines 3426-3461, and after the first
\* that succeeds the reset of lines 3284-3288
refreshForumData ==
    /\ step = "bridgeRefresh"
    /\ \E fetched \in 0..2 :
         /\ fetched > 0 => Readable(chainForum)
         /\ posts' = IF fetched = 2 THEN LoadPosts ELSE posts
         /\ IF fetched = 2
            THEN /\ showBridge' = FALSE
                 /\ bridgePostContent' = <<>>
                 /\ bridgePostCategory' = "General Chatting"
                 /\ error' = NullRef
                 /\ loading' = FALSE
                 /\ step' = "completed"
                 /\ UNCHANGED refreshAttempt
            ELSE IF refreshAttempt = RefreshAttempts
            THEN /\ BridgeFailed
                 /\ UNCHANGED <<showBridge, bridgePostContent,
                                bridgePostCategory, refreshAttempt>>
            ELSE /\ refreshAttempt' = refreshAttempt + 1
                 /\ UNCHANGED <<showBridge, bridgePostContent,
                                bridgePostCategory, error, loading, step>>
    /\ UNCHANGED <<publicKey, forumPda, replies, op, tx, check, fnOutcome,
                   sends, refreshes, refreshed, evmAddress, estimationInfo>>
    /\ ChainUnchanged
    /\ UNCHANGED <<sendVars, starVars, wr>>

-----------------------------------------------------------------------------
(* Starred posts, lines 1745 and 2014-2038 *)

\* localStorage.getItem of a key that was never set
NoItem == <<"null">>

\* useState([]) of line 1745, and an empty localStorage
InitStarred ==
    /\ starredPosts = <<>>
    /\ localStorage = [w \in Wallets |-> NoItem]

\* JSON.stringify of a list of post ids, from its element i on
RECURSIVE StringifyFrom(_, _)
StringifyFrom(list, i) ==
    IF i > Len(list)
    THEN <<>>
    ELSE (IF i > 1 THEN <<",">> ELSE <<>>)
         \o <<"\"">> \o DigitStr(list[i]) \o <<"\"">>
         \o StringifyFrom(list, i + 1)

\* JSON.stringify(starredPosts), line 2026
JSONStringify(list) == <<"[">> \o StringifyFrom(list, 1) \o <<"]">>

\* the lists of distinct ids of loaded posts
StarLists ==
    LET ids == { post.id : post \in posts } IN
    UNION { { l \in [1..n -> ids] : \A i, j \in 1..n : i # j => l[i] # l[j] }
            : n \in 0..Cardinality(ids) }

\* JSON.parse(storedStarred), line 2019: the list the text is the JSON of
JSONParse(text) == CHOOSE l \in StarLists : JSONStringify(l) = text

\* the effect of lines 2024-2028, run with wallet key and list starred
PersistStarred(store, key, starred) ==
    IF key # NullRef /\ Len(starred) > 0
    THEN [store EXCEPT ![key] = JSONStringify(starred)]
    ELSE store

\* prev.filter((id) => id !== postId), line 2033
Without(list, postId) ==
    LET keep == { i \in 1..Len(list) : list[i] # postId }
        F[i \in 0..Len(list)] ==
            IF i = 0 THEN <<>>
            ELSE IF i \in keep THEN Append(F[i - 1], list[i]) ELSE F[i - 1]
    IN F[Len(list)]

\* prev.includes(postId), line 2032
IsStarred(list, postId) == \E i \in 1..Len(list) : list[i] = postId

\* the app state toggleStarPost and the effects leave alone
PageUnchanged ==
    /\ UNCHANGED <<forumPda, loading, error, posts, replies, step, op, tx,
                   refreshAttempt, check, fnOutcome, sends, refreshes,
                   refreshed>>
    /\ ChainUnchanged
    /\ UNCHANGED <<sendVars, bridgeVars, wr>>

\* lines 2030-2038, the 'Star' button of a loaded post, and the effect of
\* lines 2024-2028 that the new list triggers
toggleStarPost ==
    /\ \E post \in posts :
         /\ starredPosts' = IF IsStarred(starredPosts, post.id)
                            THEN Without(starredPosts, post.id)
                            ELSE Append(starredPosts, post.id)
         /\ localStorage' = PersistStarred(localStorage, publicKey, starredPosts')
    /\ UNCHANGED publicKey
    /\ PageUnchanged

\* a wallet connects: the effects of lines 2015-2022 and 2024-2028 run with
\* the list of the render that saw the new key, and the second runs again
\* when the first has loaded a stored list
StarredConnect ==
    /\ publicKey = NullRef
    /\ \E w \in Wallets :
         LET storedStarred == localStorage[w]
             written == PersistStarred(localStorage, w, starredPosts)
         IN /\ publicKey' = w
            /\ IF storedStarred # NoItem
               THEN /\ starredPosts' = JSONParse(storedStarred)
                    /\ localStorage' = PersistStarred(written, w, starredPosts')
               ELSE /\ starredPosts' = starredPosts
                    /\ localStorage' = written
    /\ PageUnchanged

\* the wallet disconnects; the list stays as it is
StarredDisconnect ==
    /\ publicKey # NullRef
    /\ publicKey' = NullRef
    /\ UNCHANGED starVars
    /\ PageUnchanged

\* the page is reloaded: the component state starts again, localStorage
\* is kept
Reload ==
    /\ publicKey' = NullRef
    /\ starredPosts' = <<>>
    /\ UNCHANGED localStorage
    /\ PageUnchanged

\* the catch and finally blocks of initializeForum, lines 2264-2269
InitializeFailed(message) ==
    /\ error' = message
    /\ loading' = FALSE
    /\ step' = "completed"

\* lines 2174-2191
initializeForum ==
    /\ step = "idle"
    /\ op' = "initializeForum"
    /\ check' = initializeForumCheck
    /\ IF initializeForumCheck # OK
       THEN /\ error' = initializeForumCheck
            /\ step' = "completed"
            /\ UNCHANGED loading
       ELSE /\ loading' = TRUE
            /\ error' = NullRef
            /\ step' = "initBalance"
    /\ UNCHANGED <<publicKey, forumPda, tx, refreshAttempt, fnOutcome, sends,
                   refreshes, refreshed>>
    /\ LoadedUnchanged
    /\ ChainUnchanged
    /\ UNCHANGED <<sendVars, formVars>>

\* lines 2193-2198: the wallet balance and the rent exemption
InitializeBalance ==
    /\ step = "initBalance"
    /\ \E r \in {"enough", "insufficient", "throw"} :
         CASE r = "enough" ->
                /\ step' = "initAccount"
                /\ UNCHANGED <<error, loading>>
           [] r = "insufficient" ->
                InitializeFailed("Insufficient wallet balance. Need ~ SOL for initialization.")
           [] r = "throw" ->
                InitializeFailed("Failed to initialize forum: ")
    /\ UNCHANGED <<publicKey, forumPda, op, tx, check, refreshAttempt, fnOutcome,
                   sends, refreshes, refreshed>>
    /\ LoadedUnchanged
    /\ ChainUnchanged
    /\ UNCHANGED <<sendVars, formVars>>

\* a lookup whose result is not tested
AccountInfoIgnored(f) == FALSE

\* "if (forumAccountInfo)", line 2201
AccountInfoFound(f) == f # "none"

\* lines 2200-2223: the forum account, when it exists, ends the handler
InitializeAccountInfo ==
    /\ step = "initAccount"
    /\ \E thrown \in BOOLEAN, fetched \in BOOLEAN :
         IF thrown
         THEN InitializeFailed("Failed to initialize forum: ")
         ELSE IF AccountInfoFound(chainForum)
         THEN IF fetched /\ chainForum = "valid"
              THEN InitializeFailed("Forum is already initialized with a valid admin. No action needed.")
              ELSE IF fetched /\ chainForum = "foreign"
              THEN InitializeFailed("Forum is already initialized with a different admin. Cannot reinitialize.")
              ELSE InitializeFailed("Forum account exists but cannot be read.")
         ELSE /\ step' = "initForumBalance"
              /\ UNCHANGED <<error, loading>>
    /\ UNCHANGED <<publicKey, forumPda, op, tx, check, refreshAttempt, fnOutcome,
                   sends, refreshes, refreshed>>
    /\ LoadedUnchanged
    /\ ChainUnchanged
    /\ UNCHANGED <<sendVars, formVars>>

\* lines 2225-2250: the balance of the forum address decides whether the
\* funding transfer is sent first
InitializeForumBalance ==
    /\ step = "initForumBalance"
    /\ \E r \in {"funded", "unfunded", "throw"} :
         CASE r = "throw" ->
                /\ InitializeFailed("Failed to initialize forum: ")
                /\ UNCHANGED <<tx, sends>>
           [] r = "unfunded" ->
                /\ tx' = Tx("transfer", publicKey, <<>>, 0)
                /\ sends' = sends + 1
                /\ step' = "initFund"
                /\ UNCHANGED <<error, loading>>
           [] r = "funded" ->
                /\ tx' = Tx("initializeForum", publicKey, <<>>, 0)
                /\ sends' = sends + 1
                /\ step' = "initSend"
                /\ UNCHANGED <<error, loading>>
    /\ UNCHANGED <<publicKey, forumPda, op, check, refreshAttempt, fnOutcome,
                   refreshes, refreshed>>
    /\ LoadedUnchanged
    /\ ChainUnchanged
    /\ UNCHANGED <<sendVars, formVars>>

\* line 2234, then lines 2238-2250
InitializeFund ==
    /\ step = "initFund"
    /\ \E outcome \in SendOutcomes, executed \in BOOLEAN :
         /\ Execute(tx, executed)
         /\ IF outcome = "throw"
            THEN /\ InitializeFailed("Failed to initialize forum: ")
                 /\ tx' = NoTx
                 /\ UNCHANGED sends
            ELSE /\ tx' = Tx("initializeForum", publicKey, <<>>, 0)
                 /\ sends' = sends + 1
                 /\ step' = "initSend"
                 /\ UNCHANGED <<error, loading>>
    /\ UNCHANGED <<publicKey, forumPda, op, check, refreshAttempt, fnOutcome,
                   refreshes, refreshed>>
    /\ LoadedUnchanged
    /\ UNCHANGED <<sendVars, formVars>>

\* line 2252
InitializeSend ==
    /\ step = "initSend"
    /\ \E outcome \in SendOutcomes, executed \in BOOLEAN :
         /\ Execute(tx, executed)
         /\ IF outcome = "throw"
            THEN InitializeFailed("Failed to initialize forum: ")
            ELSE /\ step' = "initFetch"
                 /\ UNCHANGED <<error, loading>>
    /\ tx' = NoTx
    /\ UNCHANGED <<publicKey, forumPda, op, check, refreshAttempt, fnOutcome,
                   sends, refreshes, refreshed>>
    /\ LoadedUnchanged
    /\ UNCHANGED <<sendVars, formVars>>

\* lines 2255-2269
InitializeFetch ==
    /\ step = "initFetch"
    /\ \E fetched \in BOOLEAN :
         /\ fetched => Readable(chainForum)
         /\ IF fetched
            THEN /\ error' = NullRef
                 /\ loading' = FALSE
                 /\ step' = "completed"
            ELSE InitializeFailed("Failed to initialize forum: ")
    /\ UNCHANGED <<publicKey, forumPda, op, tx, check, refreshAttempt, fnOutcome,
                   sends, refreshes, refreshed>>
    /\ LoadedUnchanged
    /\ ChainUnchanged
    /\ UNCHANGED <<sendVars, formVars>>

-----------------------------------------------------------------------------
(* The wallet and the forum address *)

HandlerUnchanged ==
    UNCHANGED <<step, op, tx, refreshAttempt, check, fnOutcome, sends,
                refreshes, refreshed>>

\* the wallet adapter connects a wallet; a session is one wallet's
ConnectWallet ==
    /\ step = "idle"
    /\ publicKey = NullRef
    /\ \E w \in Wallets : publicKey' = w
    /\ UNCHANGED <<forumPda, loading, error>>
    /\ LoadedUnchanged
    /\ HandlerUnchanged
    /\ ChainUnchanged
    /\ UNCHANGED <<sendVars, formVars>>

\* the effect of lines 1834-1851
deriveForumPda ==
    /\ step = "idle"
    /\ forumPda = NullRef
    /\ \E derived \in BOOLEAN :
         IF derived
         THEN /\ forumPda' = "forumPda"
              /\ UNCHANGED error
         ELSE /\ error' = "Failed to derive Forum PDA: "
              /\ UNCHANGED forumPda
    /\ UNCHANGED <<publicKey, loading>>
    /\ LoadedUnchanged
    /\ HandlerUnchanged
    /\ ChainUnchanged
    /\ UNCHANGED <<sendVars, formVars>>

-----------------------------------------------------------------------------
(* Specifications *)

Init == InitSend /\ InitApp /\ InitBridge /\ InitStarred /\ InitWithRetry

Next ==
    \/ ConnectWallet
    \/ deriveForumPda
    \/ createPost
    \/ createReply
    \/ ratePost
    \/ rateReply
    \/ reportPost
    \/ reportReply
    \/ resolveReport
    \/ deletePost
    \/ deleteReply
    \/ closeReport
    \/ closeForum
    \/ TransactionFn
    \/ SendAndConfirmWithRetry
    \/ RefreshAttempt
    \/ Completed
    \/ initializeForum
    \/ InitializeBalance
    \/ InitializeAccountInfo
    \/ InitializeForumBalance
    \/ InitializeFund
    \/ InitializeSend
    \/ InitializeFetch

\* the component
Spec == Init /\ [][Next]_vars

\* the component at rest, no forum account on chain
InitAtRest == Init /\ chainForum = "none"

\* one caller of sendAndConfirmWithRetry
SpecSend == InitAtRest /\ [][NextSend]_vars

\* every RPC call returns and every timer fires
FairSend == SpecSend /\ WF_vars(NextSend)

\* handleBridgeAndPost called with the values its closure may hold
InitBridgeCall ==
    /\ InitSend
    /\ InitApp
    /\ showBridge = FALSE
    /\ evmAddress \in {NullRef, "0xEvmAddress"}
    /\ estimationInfo \in {NullRef, "estimation"}
    /\ bridgePostContent \in BridgeContents
    /\ bridgePostCategory \in PostCategories
    /\ InitStarred
    /\ InitWithRetry

NextBridge ==
    \/ ConnectWallet
    \/ deriveForumPda
    \/ handleBridgeAndPost
    \/ BridgeCreateTx
    \/ BridgeEvmSend
    \/ BridgePoll
    \/ BridgeVerifyBalance
    \/ createAndSendPost
    \/ BridgeSend
    \/ refreshForumData
    \/ Completed

\* the bridge flow as its handler runs it
SpecBridge == InitBridgeCall /\ [][NextBridge]_vars

\* the user never stops using the page, and every await settles
FairSpec == Spec /\ WF_vars(Next)

\* two posts by the admin, loaded
StarredSamplePosts ==
    { [id |-> i, author |-> ADMIN_PUBLIC_KEY,
       content |-> CategorizedContent("General Chatting", TextGm)] : i \in 1..2 }

\* the page with the forum's posts loaded and no wallet connected yet
InitStarredPage ==
    /\ InitSend
    /\ InitBridge
    /\ InitStarred
    /\ InitWithRetry
    /\ publicKey = NullRef
    /\ forumPda = "forumPda"
    /\ loading = FALSE
    /\ error = NullRef
    /\ chainForum = "valid"
    /\ chainPosts = StarredSamplePosts
    /\ chainReplies = {}
    /\ postCount = 2
    /\ replyCount = 0
    /\ posts = LoadPosts
    /\ replies = {}
    /\ step = "idle"
    /\ op = "none"
    /\ tx = NoTx
    /\ refreshAttempt = 0
    /\ check = OK
    /\ fnOutcome = "none"
    /\ sends = 0
    /\ refreshes = 0
    /\ refreshed = FALSE

NextStarred ==
    \/ StarredConnect
    \/ StarredDisconnect
    \/ toggleStarPost
    \/ Reload

\* starring and reloading
SpecStarred == InitStarredPage /\ [][NextStarred]_vars

\* withRetry called on its own
SpecWithRetry == InitAtRest /\ [][NextWithRetry]_vars

-----------------------------------------------------------------------------
(* Properties of sendAndConfirmWithRetry *)

\* the attempts made and the submissions stay within maxRetries
C1_Bounded ==
    /\ pc # "idle" => sendCalls <= maxRetries
    /\ pc \notin {"idle", "done"} => attempt \in 1..maxRetries
    /\ sentAt \subseteq 1..maxRetries

\* C1: when every RPC call returns, a call of sendAndConfirmWithRetry
\* settles, by returning or by throwing, after at most maxRetries attempts,
\* and it calls provider.sendAndConfirm at most maxRetries times
C1_Terminates ==
    /\ []C1_Bounded
    /\ (pc \notin {"idle", "done"}) ~> (pc = "done")

\* a call that used all of its attempts, each one a submission
C1_Witness ==
    /\ pc = "done"
    /\ maxRetries >= 2
    /\ sendCalls = maxRetries
    /\ attempt = maxRetries + 1

\* C2: one call leads to at most one executed transaction, and after a
\* submission failed with an error that leaves its outcome unknown,
\* provider.sendAndConfirm is not called again (the wrapper never looks the
\* earlier submission up before it retries)
C2_AtMostOneExecuted ==
    /\ landed <= 1
    /\ \A a \in ambiguousAt : \A b \in sentAt : b <= a

\* C3: an attempt whose simulation reported value.err does not send, and on
\* the last attempt the call rejects with 'Simulation failed'
C3_SimulationErrorNotSent ==
    /\ \A a \in simErrAt : a \notin sentAt
    /\ (pc = "done" /\ maxRetries \in simErrAt) =>
          /\ result.kind = "throw"
          /\ includes(result.message, MsgSimulationFailed)

\* C4: when the status of the sent transaction shows meta.err, the call
\* rejects with 'Transaction failed' and does not return the signature
C4_FailedTransactionRejects ==
    (pc = "done" /\ metaErrAt # {}) =>
       /\ result.kind = "throw"
       /\ includes(result.message, MsgTransactionFailed)

-----------------------------------------------------------------------------
(* Properties of the handlers *)

\* a handler that runs executeTransactionSilently has completed
SilentlyCompleted == step = "completed" /\ op # "initializeForum"

\* C5: executeTransactionSilently never rejects: whether transactionFn
\* succeeded or threw and whether the refresh succeeded or failed on all of
\* its attempts, the call runs to its last line and loading is false
\* when it completes
C5_CompletesWithLoadingFalse ==
    SilentlyCompleted =>
       /\ loading = FALSE
       /\ fnOutcome \in {"ok", "threw"}
       /\ refreshes >= 1

\* transactionFn threw and all three refresh attempts failed
C5_Witness ==
    /\ SilentlyCompleted
    /\ fnOutcome = "threw"
    /\ sends = 1
    /\ refreshes = RefreshAttempts
    /\ ~refreshed

\* C6: after transactionFn has finished, whether it succeeded or threw,
\* the forum data is refreshed in at least one and at most 3 attempts, and
\* no attempt follows one that completed without error
C6_RefreshesUnconditionally ==
    /\ step = "refresh" =>
          /\ fnOutcome \in {"ok", "threw"}
          /\ refreshAttempt \in 1..RefreshAttempts
          /\ refreshes = refreshAttempt - 1
          /\ ~refreshed
    /\ SilentlyCompleted =>
          /\ refreshes \in 1..RefreshAttempts
          /\ refreshed \/ refreshes = RefreshAttempts

\* transactionFn threw, the first refresh attempt failed and the second
\* one ended the loop
C6_Witness ==
    /\ SilentlyCompleted
    /\ fnOutcome = "threw"
    /\ refreshes = 2
    /\ refreshed

\* C7: when a handler rejects its input in a validation check, the error
\* state holds that check's message when the handler has completed
C7_ErrorHoldsCheckMessage ==
    (SilentlyCompleted /\ check # OK) => error = check

\* the six handlers any user may call
UserHandlers ==
    { "createPost", "createReply", "ratePost", "rateReply", "reportPost",
      "reportReply" }

\* C8: when a validation check of createPost, createReply, ratePost,
\* rateReply, reportPost or reportReply fails, the handler never calls
\* sendAndConfirmWithRetry
C8_FailedCheckNeverSends ==
    (op \in UserHandlers /\ check # OK) =>
       /\ sends = 0
       /\ step \notin {"send", "initFund", "initSend"}
       /\ tx.kind \in {"noop", "none"}

\* reportPost has completed after its reason was found too long
C8_Witness ==
    /\ SilentlyCompleted
    /\ op = "reportPost"
    /\ check = "Report reason exceeds 100 characters. Please shorten it."
    /\ refreshes >= 1

\* the text createPost puts before the content of an announcement
AnnouncementPrefix == <<"[">> \o CategoryText("Announcements") \o <<"]", " ">>

\* the transaction is a post in the 'Announcements' category
IsAnnouncement(t) ==
    /\ t.kind = "createPost"
    /\ Len(t.content) >= Len(AnnouncementPrefix)
    /\ SubSeq(t.content, 1, Len(AnnouncementPrefix)) = AnnouncementPrefix

ModeratorRestricted ==
    { "transfer", "initializeForum", "resolveReport", "resolveReplyReport",
      "deletePost", "deleteReply", "closePostReport", "closeReplyReport" }

\* C9: a role-restricted transaction is submitted only for a wallet that
\* holds the role: an announcement, initializeForum, resolveReport,
\* deletePost, deleteReply and closeReport for the admin key or a moderator
\* key, closeForum for the admin key alone
C9_RoleRestricted ==
    step \in {"send", "initFund", "initSend"} =>
       /\ tx.signer = publicKey
       /\ (IsAnnouncement(tx) \/ tx.kind \in ModeratorRestricted) =>
             tx.signer \in MODERATOR_PUBLIC_KEYS \cup {ADMIN_PUBLIC_KEY}
       /\ tx.kind = "closeForum" => tx.signer = ADMIN_PUBLIC_KEY

\* a moderator's announcement is being submitted
C9_Witness ==
    /\ step = "send"
    /\ IsAnnouncement(tx)
    /\ tx.signer \in MODERATOR_PUBLIC_KEYS

\* C10: every post listed under 'Announcements' was authored by the admin
\* key or a moderator key
C10_AnnouncementsByRole ==
    \A post \in filteredPosts("Announcements") :
       post.author \in MODERATOR_PUBLIC_KEYS \cup {ADMIN_PUBLIC_KEY}

-----------------------------------------------------------------------------
(* Properties of initializeForum *)

\* the messages lines 2204-2220 set for a forum account that exists
ForumExistsMessages ==
    { "Forum is already initialized with a valid admin. No action needed.",
      "Forum is already initialized with a different admin. Cannot reinitialize.",
      "Forum account exists but cannot be read." }

\* initializeForum has completed without a submission, the forum account
\* being on chain
InitializeCompletedForumExists ==
    /\ step = "completed"
    /\ op = "initializeForum"
    /\ sends = 0
    /\ chainForum # "none"

\* C11 as stated: whenever the forum account exists, initializeForum ends
\* with an error saying the forum is already initialized or unreadable
C11_AlwaysSaysInitialized ==
    /\ (op = "initializeForum" /\ step \in {"initFund", "initSend"}) =>
          chainForum = "none"
    /\ InitializeCompletedForumExists =>
          /\ loading = FALSE
          /\ error \in ForumExistsMessages

\* C11 amended: when the forum account exists initializeForum submits
\* neither the funding transfer nor the initializeForum instruction, loading
\* is false when it completes, and the error is the message of the wallet,
\* address or role check that failed, or the message of the balance check or
\* of an RPC call that threw, or else says that the forum is already
\* initialized (with a valid admin for a valid forum, with a different admin
\* for a foreign one) or cannot be read
C11_NoTransactionWhenForumExists ==
    /\ (op = "initializeForum" /\ step \in {"initFund", "initSend"}) =>
          chainForum = "none"
    /\ InitializeCompletedForumExists =>
          /\ loading = FALSE
          /\ IF check # OK
             THEN error = check
             ELSE \/ error = "Insufficient wallet balance. Need ~ SOL for initialization."
                  \/ error = "Failed to initialize forum: "
                  \/ /\ error \in ForumExistsMessages
                     /\ error = "Forum is already initialized with a valid admin. No action needed."
                           => chainForum = "valid"
                     /\ error = "Forum is already initialized with a different admin. Cannot reinitialize."
                           => chainForum = "foreign"

\* a moderator's call found the forum of another admin
C11_Witness ==
    /\ InitializeCompletedForumExists
    /\ check = OK
    /\ publicKey \in MODERATOR_PUBLIC_KEYS
    /\ error = "Forum is already initialized with a different admin. Cannot reinitialize."

-----------------------------------------------------------------------------
(* Properties of the posts the application builds *)

-----------------------------------------------------------------------------
(* Properties of the bridge dialog *)

\* the bridge dialog stays closed and handleBridgeAndPost is never started
BridgeDialogClosed ==
    /\ showBridge = FALSE
    /\ op # "handleBridgeAndPost"

\* C13: the bridge-and-post flow is reachable: by using the page the user
\* gets the bridge dialog open (showBridge true) and can start
\* handleBridgeAndPost
C13_BridgeReachable == <>(showBridge = TRUE)

-----------------------------------------------------------------------------
(* Properties of the starred posts *)

\* the list a reload restores for wallet w
Restored(w) ==
    IF localStorage[w] = NoItem THEN <<>> ELSE JSONParse(localStorage[w])

\* C14: for a connected wallet the list stored under starred_posts_<wallet>
\* equals the current starred list, so that a reload restores exactly the
\* posts that are starred
C14_StoredEqualsStarred ==
    publicKey # NullRef => Restored(publicKey) = starredPosts

-----------------------------------------------------------------------------
(* Properties of withRetry *)

\* the error is one of rate limiting
IsRateLimit(r) ==
    /\ r.kind = "error"
    /\ \/ includes(r.err.message, Frag429)
       \/ includes(r.err.message, FragTooManyRequests)

\* C15: withRetry calls fn again only after a rate-limit error: an error
\* whose message contains neither '429' nor 'Too Many Requests' is rethrown
\* as it is and ends the call, and a result of fn is returned and ends the
\* call
C15_RetriesOnlyRateLimits ==
    LET n == Len(wr.history) IN
    /\ \A i \in 1..(n - 1) : IsRateLimit(wr.history[i])
    /\ wr.pc = "call" => \A i \in 1..n : IsRateLimit(wr.history[i])
    /\ wr.pc = "done" =>
          /\ n >= 1
          /\ wr.history[n].kind = "value" =>
                /\ wr.result.kind = "return"
                /\ wr.result.value = wr.history[n].value
          /\ (wr.history[n].kind = "error" /\ ~IsRateLimit(wr.history[n])) =>
                /\ wr.result.kind = "throw"
                /\ wr.result.err = wr.history[n].err

\* after two rate-limit errors the wallet's refusal is rethrown
C15_Witness ==
    /\ wr.pc = "done"
    /\ Len(wr.history) = 3
    /\ wr.history[3] = Thrown(Error(TextUserRejected))
    /\ wr.result.kind = "throw"
    /\ wr.result.err = Error(TextUserRejected)

-----------------------------------------------------------------------------
(* Properties of the retry loop of sendAndConfirmWithRetry *)

\* C16: every attempt of sendAndConfirmWithRetry after the first one starts
\* after a wait of at least baseDelay * 2^(attempt - 1) milliseconds, counted
\* with the number of the attempt that failed
C16_BackoffBetweenAttempts ==
    (pc \notin {"idle", "done"} /\ attempt >= 2)
        => waited >= Delay(attempt - 1)

\* C17: provider.sendAndConfirm is called only in an attempt that has fetched
\* the blockhash the transaction carries and has called simulateTransaction;
\* the blockhash of an earlier attempt is never the one sent
C17_SimulateThenSend ==
    [][ sendCalls' = sendCalls + 1
          => /\ recentBlockhash = attempt
             /\ simulatedAt = attempt ]_vars

\* the second attempt sends, with its own blockhash and after its own
\* simulation
C17_Witness ==
    /\ attempt = 2
    /\ sentAt = {2}
    /\ sendCalls = 1
    /\ recentBlockhash = 2
    /\ simulatedAt = 2

\* C18: once provider.sendAndConfirm has failed with "This transaction has
\* already been processed", the call submits nothing more and settles on the
\* status lookup alone: it returns the transaction's signature when the
\* lookup finds the transaction without error, and throws "Transaction
\* already processed but failed or not found" in every other case
C18_AlreadyProcessedSettles ==
    [][ (pc = "status" /\ attempt \in sentAt)
          => /\ sendCalls' = sendCalls
             /\ pc' \in {"status", "done"}
             /\ pc' = "done" =>
                   IF lookup' = "found"
                   THEN result' = Returned(SignatureOf(signatures))
                   ELSE result' = Rejected(Error(MsgAlreadyProcessedFailed))
      ]_vars

\* the second attempt was answered "already been processed", and the lookup
\* found the transaction
C18_Witness ==
    /\ pc = "done"
    /\ attempt = 2
    /\ attempt \in sentAt
    /\ lookup = "found"
    /\ result = Returned(Sig(2))

=============================================================================
